---------------------------- MODULE Spec2Model ----------------------------
(***************************************************************************)
(* Model of the FuzzyNLP command parser: the robot controller and its      *)
(* dispatcher (robot_controller.py), the fuzzy corrector                   *)
(* (fuzzy_matching.py) and the slot extractor (command_parser.py).         *)
(*                                                                         *)
(* Python values are tagged tuples so that None, strings and numbers can   *)
(* share a dictionary: None is <<"None">>, a string s is <<"str", s>>, a   *)
(* float n is <<"num", n>>.  Distances are held in hundredths of a metre   *)
(* (x = 1.0 is 100), which is exact for the integral values drawn here;    *)
(* angles are whole degrees.                                               *)
(***************************************************************************)
EXTENDS Integers, Sequences, FiniteSets, TLC

VARIABLES
    x, y, angle, gripper_state,   \* RobotController fields
    command_obj,                  \* the dictionary of the last execute_command call
    feedback,                     \* the string that call returned ("" when it raised)
    raised,                       \* the exception that call raised ("" when it returned)
    pre,                          \* the controller's fields when that call began
    sum_dx, sum_dy, sum_da,       \* deltas of the successful moves and rotations so far
    calls,                        \* number of execute_command calls made
    token, vocabulary, threshold, \* arguments of get_standard_word; the set in iteration order
    ratio,                        \* fuzz.ratio(token.lower(), w.lower()) for each w of vocabulary
    best_match, highest_ratio,    \* locals of get_standard_word
    next_word,                    \* index of the word the loop visits next
    corrected,                    \* the value returned, None until the call returns
    doc,                          \* the annotated tokens spaCy returned for the text
    command_slots,                \* the dictionary of extract_command_slots
    outcome,                      \* of the call: "" while pending, "returned", or the exception
    accepted,                     \* positions of the tokens whose text became the value, in order
    fuzzy_tokens,                 \* the corrected tokens passed to generate_command_object
    command_object                \* the dictionary generate_command_object returned

ctl_vars == <<x, y, angle, gripper_state, command_obj, feedback, raised, pre,
              sum_dx, sum_dy, sum_da, calls>>

fz_vars == <<token, vocabulary, threshold, ratio, best_match, highest_ratio,
             next_word, corrected>>

px_vars == <<doc, command_slots, outcome, accepted, fuzzy_tokens, command_object>>

vars == <<ctl_vars, fz_vars, px_vars>>

\* ------------------------------------------------------------------ bounds
MaxCalls == 2
MaxValue == 2
\* the numeric slot values drawn are the multiples 0..MaxValue of ValueStep
ValueStep == 180
\* the vocabulary holds at most the first MaxVocab words of WordList
MaxVocab == 3
\* a sentence holds at most MaxTokens tokens
MaxTokens == 3

\* ------------------------------------------------------- Python values
None == <<"None">>
S(s) == <<"str", s>>
N(n) == <<"num", n>>
IsNum(v) == v[1] = "num"
Missing == <<"missing">>

\* bool(v) for the values used here: None, 0 and '' are falsy
Truthy(v) == v # None /\ v # N(0) /\ v # S("")

\* dict.get(key, default)
Get(d, k, default) == IF k \in DOMAIN d THEN d[k] ELSE default

\* str(v) inside an f-string: a float prints with its fraction
Str(v) == IF v = None THEN "None"
          ELSE IF IsNum(v) THEN ToString(v[2]) \o ".0"
          ELSE v[2]

Abs(n) == IF n < 0 THEN 0 - n ELSE n

CmPerMeter == 100

TwoDigits(n) == IF n < 10 THEN "0" \o ToString(n) ELSE ToString(n)

\* f"{v:.2f}" of a distance held in hundredths
Fmt2(h) == (IF h < 0 THEN "-" ELSE "") \o ToString(Abs(h) \div CmPerMeter)
           \o "." \o TwoDigits(Abs(h) % CmPerMeter)

\* f"{v:.2f}" of a whole number of degrees
Fmt2Deg(a) == ToString(a) \o ".00"

\* ------------------------------------------------------- RobotController
InitRobot == [x |-> 0, y |-> 0, angle |-> 0, gripper_state |-> "open"]

\* mutant: the heading wrapped to [0, 360)
update_state_wrapped(r, dx, dy, da) ==
    [r EXCEPT !.x = @ + dx, !.y = @ + dy, !.angle = (@ + da) % 360]

update_state(r, dx, dy, da) ==
    [r EXCEPT !.x = @ + dx, !.y = @ + dy, !.angle = @ + da]

get_current_state(r) ==
    "Position: (" \o Fmt2(r.x) \o ", " \o Fmt2(r.y) \o "), Orientation: "
    \o Fmt2Deg(r.angle) \o " degrees, Gripper: " \o r.gripper_state

Returned(r, out) == [robot |-> r, out |-> out, exc |-> ""]
\* an exception leaves the fields as they were when it was raised
Raised(r, exc) == [robot |-> r, out |-> "", exc |-> exc]

\* mutant: centimetres taken for metres
distance_m_unconverted(value, unit) == value[2] * CmPerMeter

\* distance_m of move_robot, in hundredths; read only for a numeric value and a
\* supported unit
distance_m(value, unit) ==
    IF unit = S("cm") THEN value[2] ELSE value[2] * CmPerMeter

move_delta(direction, dist) ==
    IF direction = S("FORWARD") THEN [dx |-> 0, dy |-> dist]
    ELSE IF direction = S("BACKWARD") THEN [dx |-> 0, dy |-> 0 - dist]
    ELSE IF direction = S("RIGHT") THEN [dx |-> dist, dy |-> 0]
    ELSE IF direction = S("LEFT") THEN [dx |-> 0 - dist, dy |-> 0]
    ELSE [dx |-> 0, dy |-> 0]

MoveDirections == {S("FORWARD"), S("BACKWARD"), S("RIGHT"), S("LEFT")}

\* mutant: an unknown unit falls through to the metre branch
unit_supported_any(unit) == TRUE

unit_supported(unit) == unit = S("cm") \/ unit = S("meter")

\* each operation yields the controller after the call and the string returned,
\* or the exception raised.  A value that is a string makes value / 100.0,
\* -distance_m and self.x += dx raise TypeError, each before any field changes;
\* with unit 'meter' and a direction outside the four the value is never used.
move_robot(r, direction, value, unit) ==
    IF ~ unit_supported(unit)
    THEN Returned(r, "Error: Unit '" \o Str(unit) \o "' not supported for movement.")
    ELSE IF ~ IsNum(value) /\ (unit = S("cm") \/ direction \in MoveDirections)
    THEN Raised(r, "TypeError")
    ELSE LET d  == IF IsNum(value) THEN move_delta(direction, distance_m(value, unit))
                   ELSE [dx |-> 0, dy |-> 0]
             r2 == update_state(r, d.dx, d.dy, 0)
         IN Returned(r2, "Simulated: Moving robot " \o Str(direction) \o " by "
                         \o Str(value) \o " " \o Str(unit) \o ". New state: "
                         \o get_current_state(r2))

rotation(a, direction) == IF direction = S("RIGHT") THEN a[2] ELSE 0 - a[2]

\* -angle, or self.angle += rotation after x and y had 0 added, raises TypeError
\* for a string
rotate_robot(r, a, direction) ==
    IF ~ IsNum(a) THEN Raised(r, "TypeError")
    ELSE LET r2 == update_state(r, 0, 0, rotation(a, direction))
         IN Returned(r2, "Simulated: Rotating robot " \o Str(direction) \o " by "
                         \o Str(a) \o " degrees. New angle: "
                         \o Fmt2Deg(r2.angle) \o ".")

halt_robot(r) == Returned(r, "Simulated: Robot immediately halted.")

\* mutant: the gripper toggled instead of closed
grab_object_toggling(r) ==
    Returned([r EXCEPT !.gripper_state = IF @ = "open" THEN "closed" ELSE "open"],
             "Simulated: Gripper closed. Object secured.")

grab_object(r) ==
    Returned([r EXCEPT !.gripper_state = "closed"],
             "Simulated: Gripper closed. Object secured.")

\* ------------------------------------------------------- execute_command
\* mutant: the unit left out of the required slots
move_slots_ok_without_unit(direction, value, unit) ==
    Truthy(direction) /\ Truthy(value)

move_slots_ok(direction, value, unit) ==
    Truthy(direction) /\ Truthy(value) /\ Truthy(unit)

rotate_direction(obj) == Get(obj, "direction", S("RIGHT"))

execute_command(obj, r) ==
    LET command == Get(obj, "command", None) IN
    IF command = S("MOVE") THEN
        LET direction == Get(obj, "direction", None)
            value     == Get(obj, "value", None)
            unit      == Get(obj, "unit", None)
        IN IF ~ move_slots_ok(direction, value, unit)
           THEN Returned(r, "Error: MOVE command missing direction, value, or unit.")
           ELSE move_robot(r, direction, value, unit)
    ELSE IF command = S("ROTATE") THEN
        LET direction == rotate_direction(obj)
            value     == Get(obj, "value", None)
        IN IF ~ Truthy(value)
           THEN Returned(r, "Error: ROTATE command missing angle value.")
           ELSE rotate_robot(r, value, direction)
    ELSE IF command = S("STOP") THEN halt_robot(r)
    ELSE IF command = S("GRAB") THEN grab_object(r)
    ELSE Returned(r, "Error: Command '" \o Str(command)
                     \o "' not recognized by the Robot Controller.")

\* ------------------------------------------------------- inputs
Keys == {"command", "direction", "value", "unit"}

\* a dictionary holding the keys whose choice is not Missing
MkObj(c, d, v, u) ==
    LET f == [k \in Keys |-> IF k = "command" THEN c
                             ELSE IF k = "direction" THEN d
                             ELSE IF k = "value" THEN v ELSE u]
    IN [k \in {kk \in Keys : f[kk] # Missing} |-> f[k]]

DirectionInputs ==
    {Missing, None, S("FORWARD"), S("BACKWARD"), S("LEFT"), S("RIGHT"), S("UP")}
\* a float, or a numeral left as text
ValueInputs == {Missing, None, S("5")} \cup {N(v * ValueStep) : v \in 0..MaxValue}
UnitInputs == {None, S("cm"), S("meter"), S("degrees")}
OtherCommands == {S("STOP"), S("GRAB"), S("UNKNOWN"), S("RELEASE"), S("DANCE")}

MoveObjs == {MkObj(S("MOVE"), d, v, u) :
                d \in DirectionInputs, v \in ValueInputs, u \in UnitInputs}
RotateDirectionInputs == {Missing, None, S("LEFT"), S("RIGHT")}
RotateObjs == {MkObj(S("ROTATE"), d, v, S("degrees")) :
                d \in RotateDirectionInputs, v \in ValueInputs}
\* a bare {'command': c}, and the extractor's record with every slot None
OtherObjs == {MkObj(c, Missing, Missing, Missing) : c \in OtherCommands}
             \cup {MkObj(c, None, None, None) : c \in {S("UNKNOWN"), S("STOP")}}

\* ------------------------------------------------------- the controller
CurrentRobot == [x |-> x, y |-> y, angle |-> angle, gripper_state |-> gripper_state]

IsMove(obj) == Get(obj, "command", None) = S("MOVE")
IsRotate(obj) == Get(obj, "command", None) = S("ROTATE")

\* what one call is to add to the position and the heading: the value in
\* hundredths of a metre along the axis of the direction, and the signed angle
contract_move(obj) ==
    LET v == obj["value"][2]
        m == IF obj["unit"] = S("cm") THEN v ELSE v * CmPerMeter
        d == obj["direction"]
    IN [dx |-> IF d = S("RIGHT") THEN m ELSE IF d = S("LEFT") THEN 0 - m ELSE 0,
        dy |-> IF d = S("FORWARD") THEN m ELSE IF d = S("BACKWARD") THEN 0 - m ELSE 0]

contract_rotate(obj) ==
    LET d == IF "direction" \in DOMAIN obj THEN obj["direction"] ELSE S("RIGHT")
    IN IF d = S("RIGHT") THEN obj["value"][2] ELSE 0 - obj["value"][2]

\* a MOVE with its three slots filled, a float value and a unit move supports
MoveSucceeds(obj) ==
    /\ IsMove(obj)
    /\ Truthy(Get(obj, "direction", None))
    /\ Truthy(Get(obj, "value", None))
    /\ IsNum(Get(obj, "value", None))
    /\ Get(obj, "unit", None) \in {S("cm"), S("meter")}

RotateSucceeds(obj) ==
    IsRotate(obj) /\ Truthy(Get(obj, "value", None)) /\ IsNum(Get(obj, "value", None))

Execute(obj) ==
    /\ calls < MaxCalls
    /\ LET res == execute_command(obj, CurrentRobot) IN
        /\ x' = res.robot.x
        /\ y' = res.robot.y
        /\ angle' = res.robot.angle
        /\ gripper_state' = res.robot.gripper_state
        /\ feedback' = res.out
        /\ raised' = res.exc
    /\ command_obj' = obj
    /\ pre' = CurrentRobot
    /\ sum_dx' = IF MoveSucceeds(obj) THEN sum_dx + contract_move(obj).dx ELSE sum_dx
    /\ sum_dy' = IF MoveSucceeds(obj) THEN sum_dy + contract_move(obj).dy ELSE sum_dy
    /\ sum_da' = IF RotateSucceeds(obj) THEN sum_da + contract_rotate(obj) ELSE sum_da
    /\ calls' = calls + 1
    /\ UNCHANGED <<fz_vars, px_vars>>

ExecuteMove == \E obj \in MoveObjs : Execute(obj)
ExecuteRotate == \E obj \in RotateObjs : Execute(obj)
ExecuteOther == \E obj \in OtherObjs : Execute(obj)

\* ------------------------------------------------------- get_standard_word
DefaultThreshold == 85

WordList == <<"move", "forward", "cm", "Degrees", "stop">>
Words == {WordList[i] : i \in 1..MaxVocab}
TokenInputs == {"forwerd", "move"}
ThresholdInputs == {0, DefaultThreshold}
\* fuzz.ratio is a library function: its scores are drawn, 0 to 100
ScoreInputs == {0, 50, DefaultThreshold, 100}

\* the orders in which a set of words can be iterated
Orders(W) ==
    {s \in [1..Cardinality(W) -> W] : \A i, j \in DOMAIN s : s[i] = s[j] => i = j}

\* nothing is being corrected
IdleFuzzy ==
    /\ token = ""
    /\ vocabulary = <<>>
    /\ threshold = DefaultThreshold
    /\ ratio = <<>>
    /\ best_match = ""
    /\ highest_ratio = 0
    /\ next_word = 1
    /\ corrected = None

\* the call: best_match = token, highest_ratio = 0.  A word equal to the token
\* scores 100.
InitFuzzy ==
    /\ token \in TokenInputs
    /\ \E W \in SUBSET Words : vocabulary \in Orders(W)
    /\ threshold \in ThresholdInputs
    /\ ratio \in [1..Len(vocabulary) -> ScoreInputs]
    /\ \A i \in 1..Len(vocabulary) : vocabulary[i] = token => ratio[i] = 100
    /\ best_match = token
    /\ highest_ratio = 0
    /\ next_word = 1
    /\ corrected = None

is_better(r, highest) == r > highest

\* one iteration of the for loop
FuzzyLoop ==
    /\ corrected = None
    /\ next_word <= Len(vocabulary)
    /\ LET r == ratio[next_word] IN
        IF is_better(r, highest_ratio)
        THEN /\ highest_ratio' = r
             /\ best_match' = IF r >= threshold THEN vocabulary[next_word]
                               ELSE best_match
        ELSE UNCHANGED <<highest_ratio, best_match>>
    /\ next_word' = next_word + 1
    /\ UNCHANGED <<token, vocabulary, threshold, ratio, corrected>>
    /\ UNCHANGED <<ctl_vars, px_vars>>

\* return best_match if highest_ratio >= threshold else token
FuzzyReturn ==
    /\ corrected = None
    /\ next_word > Len(vocabulary)
    /\ corrected' = S(IF highest_ratio >= threshold THEN best_match ELSE token)
    /\ UNCHANGED <<token, vocabulary, threshold, ratio, best_match, highest_ratio,
                   next_word>>
    /\ UNCHANGED <<ctl_vars, px_vars>>

\* ------------------------------------------------------- strings
UpperAlphabet == "ABCDEFGHIJKLMNOPQRSTUVWXYZ"
LowerAlphabet == "abcdefghijklmnopqrstuvwxyz"
Digits == "0123456789"

\* position of the one-character string c in the string alphabet, 0 if absent
IndexIn(alphabet, c) ==
    LET at == {i \in 1..Len(alphabet) : SubSeq(alphabet, i, i) = c}
    IN IF at = {} THEN 0 ELSE CHOOSE i \in at : TRUE

RECURSIVE MapChars(_, _, _)
MapChars(str, from, to) ==
    IF str = "" THEN ""
    ELSE LET c == SubSeq(str, 1, 1)
             i == IndexIn(from, c)
         IN (IF i = 0 THEN c ELSE SubSeq(to, i, i))
            \o MapChars(SubSeq(str, 2, Len(str)), from, to)

\* str.lower() and str.upper() on ASCII text
Lower(str) == MapChars(str, UpperAlphabet, LowerAlphabet)
Upper(str) == MapChars(str, LowerAlphabet, UpperAlphabet)

\* str.isdigit()
IsDigit(str) ==
    /\ str # ""
    /\ \A i \in 1..Len(str) : IndexIn(Digits, SubSeq(str, i, i)) # 0

\* str.replace(old, new): every occurrence of old, left to right
RECURSIVE Replace(_, _, _)
Replace(str, old, new) ==
    IF Len(str) < Len(old) THEN str
    ELSE IF SubSeq(str, 1, Len(old)) = old
    THEN new \o Replace(SubSeq(str, Len(old) + 1, Len(str)), old, new)
    ELSE SubSeq(str, 1, 1) \o Replace(SubSeq(str, 2, Len(str)), old, new)

RECURSIVE DecimalValue(_)
DecimalValue(str) ==
    IF str = "" THEN 0
    ELSE DecimalValue(SubSeq(str, 1, Len(str) - 1)) * Len(Digits)
         + (IndexIn(Digits, SubSeq(str, Len(str), Len(str))) - 1)

\* float(str): the texts drawn hold no sign, point, exponent or blank, so a
\* text parses exactly when it is a run of digits; None stands for ValueError
ParseFloat(str) == IF IsDigit(str) THEN N(DecimalValue(str)) ELSE None

\* ------------------------------------------------------- extract_command_slots
STANDARD_ACTIONS == {"move", "rotate", "stop", "grab", "release"}
STANDARD_DIRECTIONS == {"forward", "backward", "left", "right"}
STANDARD_UNITS == {"cm", "meters", "degrees"}

\* what the annotator gives for a token, but for its head; lower_ is
\* token.text.lower()
Word(text, pos, lemma, dep, ent) ==
    [text |-> text, lower_ |-> Lower(text), pos_ |-> pos, lemma_ |-> lemma,
     dep_ |-> dep, ent_type_ |-> ent]

Lexicon ==
    { Word("move", "VERB", "move", "ROOT", ""),
      Word("grab", "VERB", "grab", "conj", ""),
      Word("turn", "VERB", "turn", "ROOT", ""),
      Word("left", "ADV", "left", "advmod", ""),
      Word("Forward", "ADV", "forward", "advmod", ""),
      Word("50", "NUM", "50", "nummod", "CARDINAL"),
      Word("ten", "NUM", "ten", "nummod", "CARDINAL"),
      Word("cm", "NOUN", "cm", "dobj", ""),
      Word("centimeters", "NOUN", "centimeter", "dobj", "") }

\* head[i] is the position of token i's head; the root is its own head and
\* every token reaches it
RECURSIVE Ancestor(_, _, _)
Ancestor(head, i, k) == IF k = 0 THEN i ELSE Ancestor(head, head[i], k - 1)

IsTree(head) ==
    LET n == Len(head) IN
    /\ Cardinality({i \in 1..n : head[i] = i}) = 1
    /\ \A i \in 1..n : head[Ancestor(head, i, n)] = Ancestor(head, i, n)

Heads(n) == {h \in [1..n -> 1..n] : IsTree(h)}

\* the sentence of the words w with the heads h
Annotated(w, h) ==
    [i \in 1..Len(w) |->
        [text |-> w[i].text, lower_ |-> w[i].lower_, pos_ |-> w[i].pos_,
         lemma_ |-> w[i].lemma_, dep_ |-> w[i].dep_, ent_type_ |-> w[i].ent_type_,
         head |-> h[i]]]

\* token.children: the tokens whose head is token i, in sentence order
RECURSIVE ChildrenFrom(_, _, _)
ChildrenFrom(d, i, j) ==
    IF j > Len(d) THEN <<>>
    ELSE (IF d[j].head = i /\ j # i THEN <<j>> ELSE <<>>) \o ChildrenFrom(d, i, j + 1)

children(d, i) == ChildrenFrom(d, i, 1)

EmptySlots ==
    [command |-> S("UNKNOWN"), direction |-> None, value |-> None, unit |-> None]

\* the state of a call: the dictionary, the exception raised ("" if none) and
\* the positions whose text was converted
Scan(slots, exc, acc) == [slots |-> slots, exc |-> exc, acc |-> acc]

\* line 83: float(child_text.replace('a', '1').replace('an', '1'))
numeral(child_text) == ParseFloat(Replace(Replace(child_text, "a", "1"), "an", "1"))

\* lines 96-98: every CARDINAL child of the unit token is converted
RECURSIVE grandchildren_loop(_, _, _)
grandchildren_loop(d, kids, st) ==
    IF kids = <<>> \/ st.exc # "" THEN st
    ELSE LET g == kids[1] IN
         IF d[g].ent_type_ = "CARDINAL"
         THEN LET v == ParseFloat(d[g].text) IN
              IF v = None
              THEN Scan(st.slots, "ValueError", st.acc)
              ELSE grandchildren_loop(d, Tail(kids),
                       Scan([st.slots EXCEPT !.value = v], "", Append(st.acc, g)))
         ELSE grandchildren_loop(d, Tail(kids), st)

\* lines 86-89: the unit beside an accepted number at position c
unit_near(d, c, slots) ==
    IF d[d[c].head].lower_ \in STANDARD_UNITS
    THEN [slots EXCEPT !.unit = S(d[d[c].head].lower_)]
    ELSE IF c + 1 <= Len(d) /\ d[c + 1].lower_ \in STANDARD_UNITS
    THEN [slots EXCEPT !.unit = S(d[c + 1].lower_)]
    ELSE slots

\* lines 68-98: the body of the loop over the children, for child c
child_body(d, c, st) ==
    LET child_text == d[c].lower_
        s1 == IF child_text \in STANDARD_DIRECTIONS
              THEN [st.slots EXCEPT !.direction = S(Upper(child_text))]
              ELSE st.slots
    IN IF d[c].dep_ \in {"nummod", "dobj", "pobj"} \/ d[c].ent_type_ = "CARDINAL"
       THEN IF IsDigit(child_text) \/ d[c].ent_type_ = "CARDINAL"
            THEN LET v == numeral(child_text) IN
                 IF v = None
                 THEN Scan(s1, "ValueError", st.acc)
                 ELSE Scan(unit_near(d, c, [s1 EXCEPT !.value = v]), "",
                           Append(st.acc, c))
            ELSE IF child_text \in STANDARD_UNITS
            THEN grandchildren_loop(d, children(d, c),
                     Scan([s1 EXCEPT !.unit = S(child_text)], "", st.acc))
            ELSE Scan(s1, "", st.acc)
       ELSE Scan(s1, "", st.acc)

RECURSIVE children_loop(_, _, _)
children_loop(d, kids, st) ==
    IF kids = <<>> \/ st.exc # "" THEN st
    ELSE children_loop(d, Tail(kids), child_body(d, kids[1], st))

is_action_verb(tok) == tok.pos_ = "VERB" /\ tok.lemma_ \in STANDARD_ACTIONS

\* lines 60-98: the loop over the tokens, from token i on
RECURSIVE tokens_loop(_, _, _)
tokens_loop(d, i, st) ==
    IF i > Len(d) \/ st.exc # "" THEN st
    ELSE IF is_action_verb(d[i])
    THEN tokens_loop(d, i + 1,
             children_loop(d, children(d, i),
                 Scan([st.slots EXCEPT !.command = S(Upper(d[i].lemma_))], "", st.acc)))
    ELSE tokens_loop(d, i + 1, st)

extract_command_slots(d) == tokens_loop(d, 1, Scan(EmptySlots, "", <<>>))

IdleParser ==
    /\ doc = <<>>
    /\ command_slots = EmptySlots
    /\ outcome = ""
    /\ accepted = <<>>
    /\ fuzzy_tokens = <<>>
    /\ command_object = EmptySlots

\* the annotator has returned the tokens of some sentence
InitParser ==
    /\ \E n \in 0..MaxTokens :
         \E w \in [1..n -> Lexicon] :
           \E h \in Heads(n) : doc = Annotated(w, h)
    /\ command_slots = EmptySlots
    /\ outcome = ""
    /\ accepted = <<>>
    /\ fuzzy_tokens = <<>>
    /\ command_object = EmptySlots

\* the call returns its dictionary, or raises out of float() and the
\* dictionary is lost with the frame
Extract ==
    /\ outcome = ""
    /\ LET st == extract_command_slots(doc) IN
        /\ outcome' = IF st.exc = "" THEN "returned" ELSE st.exc
        /\ command_slots' = IF st.exc = "" THEN st.slots ELSE command_slots
        /\ accepted' = st.acc
    /\ UNCHANGED <<doc, fuzzy_tokens, command_object>>
    /\ UNCHANGED <<ctl_vars, fz_vars>>

\* the corrected-token lists a caller passes: empty, an action first in either
\* case, a non-action first
FuzzyTokenInputs ==
    {<<>>, <<"move">>, <<"MOVE">>, <<"Grab", "move">>, <<"forward", "move">>,
     <<"stop", "immediately">>}

\* line 121: fuzzy_tokens and fuzzy_tokens[0] in STANDARD_ACTIONS
first_is_action(tokens) == tokens # <<>> /\ tokens[1] \in STANDARD_ACTIONS

\* lines 119-124: the clean-up of the dictionary extract_command_slots returned
fallback(slots, tokens) ==
    IF slots.command = S("UNKNOWN") /\ first_is_action(tokens)
    THEN [slots EXCEPT !.command = S(Upper(tokens[1]))]
    ELSE slots

\* generate_command_object on the annotated tokens and a corrected-token list:
\* an exception of extract_command_slots passes through it
Generate ==
    /\ outcome = ""
    /\ \E tokens \in FuzzyTokenInputs :
        LET st == extract_command_slots(doc) IN
        /\ fuzzy_tokens' = tokens
        /\ outcome' = IF st.exc = "" THEN "returned" ELSE st.exc
        /\ command_slots' = IF st.exc = "" THEN st.slots ELSE command_slots
        /\ command_object' = IF st.exc = "" THEN fallback(st.slots, tokens)
                              ELSE command_object
        /\ accepted' = st.acc
    /\ UNCHANGED doc
    /\ UNCHANGED <<ctl_vars, fz_vars>>

\* ------------------------------------------------------- specifications
IdleController ==
    /\ x = InitRobot.x
    /\ y = InitRobot.y
    /\ angle = InitRobot.angle
    /\ gripper_state = InitRobot.gripper_state
    /\ command_obj = MkObj(Missing, Missing, Missing, Missing)
    /\ feedback = ""
    /\ raised = ""
    /\ pre = InitRobot
    /\ sum_dx = 0
    /\ sum_dy = 0
    /\ sum_da = 0
    /\ calls = 0

\* a controller fresh from its constructor, taking commands
Init == IdleController /\ IdleFuzzy /\ IdleParser

Next == ExecuteMove \/ ExecuteRotate \/ ExecuteOther

Spec == Init /\ [][Next]_vars

\* one call of get_standard_word
FuzzyInit == IdleController /\ InitFuzzy /\ IdleParser

FuzzyNext == FuzzyLoop \/ FuzzyReturn

FuzzySpec == FuzzyInit /\ [][FuzzyNext]_vars

\* one call of extract_command_slots
ParserInit == IdleController /\ IdleFuzzy /\ InitParser

ParserNext == Extract

ParserSpec == ParserInit /\ [][ParserNext]_vars

\* one call of generate_command_object
GenerateInit == IdleController /\ IdleFuzzy /\ InitParser

GenerateNext == Generate

GenerateSpec == GenerateInit /\ [][GenerateNext]_vars

\* ------------------------------------------------------- properties
Called == calls > 0

\* whether needle occurs in the string hay
Contains(hay, needle) ==
    \E i \in 1..(Len(hay) - Len(needle) + 1) :
        SubSeq(hay, i, i + Len(needle) - 1) = needle

Slot(k) == Get(command_obj, k, None)
\* a slot is present when the record holds a truthy value for it
SlotsPresent == Truthy(Slot("direction")) /\ Truthy(Slot("value")) /\ Truthy(Slot("unit"))
PoseMutated == x # pre.x \/ y # pre.y
Unchanged == CurrentRobot = pre

\* a MOVE record of the data model: the direction is canonical or absent, the
\* value a float or absent
WellFormedMove ==
    /\ Slot("direction") \in MoveDirections \cup {None}
    /\ Slot("value") = None \/ IsNum(Slot("value"))

\* C1 as stated: after a MOVE record is dispatched, (x, y) has changed if and
\* only if direction, value and unit are all present; with one absent the call
\* returned "Error: MOVE command missing..." and left every field as it was.
C1_MoveMutatesIffSlotsPresent ==
    (Called /\ IsMove(command_obj) /\ WellFormedMove) =>
        /\ PoseMutated <=> SlotsPresent
        /\ ~ SlotsPresent =>
              /\ raised = ""
              /\ Contains(feedback, "Error: MOVE command missing")
              /\ Unchanged

\* C1 amended: after a MOVE record is dispatched, (x, y) has changed if and
\* only if direction, value and unit are all present and the unit is cm or
\* meter; with one of the three absent the call returned
\* "Error: MOVE command missing..." and left every field as it was.
C1_MoveMutatesIffSlotsUsable ==
    (Called /\ IsMove(command_obj)) =>
        /\ WellFormedMove =>
              (PoseMutated <=>
                 (SlotsPresent /\ Slot("unit") \in {S("cm"), S("meter")}))
        /\ ~ SlotsPresent =>
              /\ raised = ""
              /\ Contains(feedback, "Error: MOVE command missing")
              /\ Unchanged

\* a MOVE without a value, dispatched to a robot that had already moved
C1_Witness ==
    /\ Called /\ IsMove(command_obj)
    /\ "value" \notin DOMAIN command_obj
    /\ Truthy(Slot("direction")) /\ Truthy(Slot("unit"))
    /\ pre.y # 0
    /\ Contains(feedback, "Error: MOVE command missing")

\* the error conditions of the dispatcher and of move
MissingMoveSlot == IsMove(command_obj) /\ ~ SlotsPresent
MissingRotateValue == IsRotate(command_obj) /\ ~ Truthy(Slot("value"))
UnsupportedUnit ==
    IsMove(command_obj) /\ SlotsPresent /\ Slot("unit") \notin {S("cm"), S("meter")}
Unrecognized ==
    Slot("command") \notin {S("MOVE"), S("ROTATE"), S("STOP"), S("GRAB")}

\* C2: a call that ends in an error condition (MOVE with a missing slot, ROTATE
\* without a value, a move unit outside cm and meter, a command outside MOVE,
\* ROTATE, STOP and GRAB) returns an error string without raising, the
\* unrecognized case one containing "not recognized", and leaves x, y, angle and
\* the gripper as they were.
C2_ErrorsReturnAndLeaveState ==
    (Called /\ (MissingMoveSlot \/ MissingRotateValue \/ UnsupportedUnit \/ Unrecognized)) =>
        /\ raised = ""
        /\ Contains(feedback, "Error: ")
        /\ Unrecognized => Contains(feedback, "not recognized")
        /\ Unchanged

\* DANCE dispatched to a robot that has moved and closed its gripper or turned
C2_Witness ==
    /\ Called
    /\ Slot("command") = S("DANCE")
    /\ pre # InitRobot
    /\ Contains(feedback, "Command 'DANCE' not recognized")

\* C3: a successful move adds the value in metres (value/100 for cm) to y for
\* FORWARD, subtracts it from y for BACKWARD, adds it to x for RIGHT and
\* subtracts it from x for LEFT, and changes nothing else; so (x, y) is always
\* the sum of the deltas of the successful moves made.
C3_MoveAddsOneAxisDelta ==
    /\ x = sum_dx
    /\ y = sum_dy
    /\ (Called /\ MoveSucceeds(command_obj)) =>
          /\ raised = ""
          /\ x = pre.x + contract_move(command_obj).dx
          /\ y = pre.y + contract_move(command_obj).dy
          /\ angle = pre.angle
          /\ gripper_state = pre.gripper_state

\* a move in centimetres made after a move along the other axis
C3_Witness ==
    /\ Called /\ MoveSucceeds(command_obj)
    /\ Slot("unit") = S("cm")
    /\ Slot("direction") = S("BACKWARD")
    /\ pre.x # 0
    /\ y = pre.y - Slot("value")[2]
    /\ x = pre.x

\* C4: a rotation adds the value to the angle for RIGHT and subtracts it for any
\* other direction, changes nothing else and never wraps: the angle is always
\* the signed sum of the rotations made.
C4_RotateAddsSignedAngle ==
    /\ angle = sum_da
    /\ (Called /\ RotateSucceeds(command_obj)) =>
          /\ raised = ""
          /\ angle = pre.angle + contract_rotate(command_obj)
          /\ x = pre.x
          /\ y = pre.y
          /\ gripper_state = pre.gripper_state

\* a second rotation to the right that takes the heading to a full turn or more
C4_Witness ==
    /\ Called /\ RotateSucceeds(command_obj)
    /\ Slot("direction") = S("RIGHT")
    /\ pre.angle > 0
    /\ angle >= 360

\* C5: a ROTATE record with a value and no direction, the key missing or the
\* field None, rotates as for RIGHT: the angle grows by the value.
C5_RotateDefaultsToRight ==
    (Called /\ RotateSucceeds(command_obj) /\ Slot("direction") = None) =>
        angle = pre.angle + Slot("value")[2]

\* ------------------------------------------------------- fuzzy corrector
VocabularyWords == {vocabulary[i] : i \in 1..Len(vocabulary)}
Score(w) == ratio[CHOOSE i \in 1..Len(vocabulary) : vocabulary[i] = w]
MaxScore == CHOOSE m \in {ratio[i] : i \in 1..Len(vocabulary)} :
                \A i \in 1..Len(vocabulary) : ratio[i] <= m

ExtractionReturned == outcome = "returned"

\* C7: extraction never fails on a numeral it cannot parse: the call returns a
\* record whose value is a float or absent.
C7_ExtractionAlwaysReturns ==
    outcome # "" =>
        /\ ExtractionReturned
        /\ command_slots.value = None \/ IsNum(command_slots.value)

\* the unit table of the specification
UnitTableKeys ==
    {"centimeter", "centimeters", "cm", "meter", "meters", "degree", "degrees"}
UnitTable(key) ==
    IF key \in {"centimeter", "centimeters", "cm"} THEN S("cm")
    ELSE IF key \in {"meter", "meters"} THEN S("meter")
    ELSE S("degrees")

\* C8: when extraction accepts a numeric token at position i and the
\* lower-cased text of token i+1 is a key of the unit table, the record's unit
\* is the table's value for it, which for centimeters is cm.  (Stated for the
\* sentences in which one token is accepted, and for the half of the claim
\* about a token i+1 that is a key.)
C8_UnitIsTableValueOfNextToken ==
    (ExtractionReturned /\ Len(accepted) = 1) =>
        LET i == accepted[1] IN
        (i + 1 <= Len(doc) /\ doc[i + 1].lower_ \in UnitTableKeys) =>
            command_slots.unit = UnitTable(doc[i + 1].lower_)

ActionVerbs == {i \in 1..Len(doc) : is_action_verb(doc[i])}
DirectionTokens == {i \in 1..Len(doc) : doc[i].lower_ \in STANDARD_DIRECTIONS}
First(positions) == CHOOSE i \in positions : \A j \in positions : i <= j

\* C9: with two or more VERB tokens whose lemma is a canonical action, the
\* record's action is the upper-cased lemma of the earliest of them.
C9_FirstActionVerbWins ==
    (ExtractionReturned /\ Cardinality(ActionVerbs) >= 2) =>
        command_slots.command = S(Upper(doc[First(ActionVerbs)].lemma_))

\* C10: the record's direction is the upper-cased text of the first token whose
\* lower-cased text is a canonical direction, whatever its head and whether or
\* not an action verb was found, and absent when there is no such token.
C10_FirstDirectionTokenWins ==
    ExtractionReturned =>
        command_slots.direction =
            IF DirectionTokens = {} THEN None
            ELSE S(Upper(doc[First(DirectionTokens)].lower_))

\* ------------------------------------------------------- fallback
\* the first corrected token, lower-cased, is a canonical action
FirstIsActionAnyCase ==
    fuzzy_tokens # <<>> /\ Lower(fuzzy_tokens[1]) \in STANDARD_ACTIONS

\* C11: when generate_command_object returns, the action is the one the tokens
\* gave if a VERB token gave one; otherwise it is the upper-cased first
\* corrected token if the list is non-empty and that token, compared without
\* regard to case, is a canonical action, and UNKNOWN if not.
C11_FallbackSetsActionIgnoringCase ==
    ExtractionReturned =>
        command_object.command =
            IF command_slots.command # S("UNKNOWN") THEN command_slots.command
            ELSE IF FirstIsActionAnyCase THEN S(Upper(fuzzy_tokens[1]))
            ELSE S("UNKNOWN")

\* ------------------------------------------------------- gripper
Dispatched(c) == Get(command_obj', "command", None) = S(c)
PoseKept == x' = x /\ y' = y /\ angle' = angle
NotRecognized(c) ==
    "Error: Command '" \o c \o "' not recognized by the Robot Controller."

\* what one execute_command call may do to the gripper
GripperStep ==
    /\ gripper_state = "closed" => gripper_state' = "closed"
    /\ Dispatched("GRAB") => gripper_state' = "closed" /\ PoseKept /\ raised' = ""
    /\ Dispatched("STOP") => PoseKept /\ gripper_state' = gripper_state /\ raised' = ""
    /\ Dispatched("RELEASE") =>
          /\ PoseKept
          /\ gripper_state' = gripper_state
          /\ feedback' = NotRecognized("RELEASE")
    /\ gripper_state' # gripper_state => Dispatched("GRAB")

\* C12: over any sequence of execute_command calls on one controller the
\* gripper starts open and is monotone: GRAB closes it and leaves x, y and
\* angle alone, STOP changes nothing, RELEASE is rejected as not recognized,
\* no command opens the gripper, and once closed it stays closed.
C12_GripperMonotone ==
    /\ gripper_state = "open"
    /\ [][GripperStep]_vars

\* a gripper closed by an earlier GRAB, after a later RELEASE
C12_Witness ==
    /\ calls >= 2
    /\ pre.gripper_state = "closed"
    /\ Get(command_obj, "command", None) = S("RELEASE")
    /\ gripper_state = "closed"

=============================================================================
